---- MODULE Spec2Model ----
(***************************************************************************)
(* State-machine model of the AccommodationsApp backend: the Express       *)
(* route handlers of routes/properties.js, routes/messages.js,             *)
(* routes/savedProperties.js, routes/reviews.js and middleware/auth.js,    *)
(* over the tables of prisma/schema.prisma.                                *)
(*                                                                         *)
(* A request is a process in a slot of req.  Every await on the data       *)
(* store is a point where another request may run; handlers that a         *)
(* concurrency property speaks about are split at those points, the        *)
(* others run as one step.  An ORM call stores the data the handler        *)
(* passes to it; the schema contributes the unique indexes, the            *)
(* autoincrement keys and the foreign keys (ON DELETE RESTRICT).           *)
(* req.user is the payload of the verified bearer token; the handlers      *)
(* compare its role with string literals of both casings.                  *)
(***************************************************************************)
EXTENDS Integers, Sequences, FiniteSets, TLC

VARIABLES db, req

vars == <<db, req>>

(***************************************************************************)
(* Bounds of the model.                                                    *)
(***************************************************************************)
MaxProperties == 2
MaxEntries == 2
MaxDate == 2
MaxConversations == 2
MaxMessages == 3
MaxRows == 2
MaxStore == 4
MaxSignups == 2

Procs == {1, 2}
Dates == 1..MaxDate

(***************************************************************************)
(* Identities.                                                             *)
(***************************************************************************)
RoleEnum == {"STUDENT", "LANDLORD", "ADMIN"}
RoleStrings == RoleEnum \cup {"student", "landlord", "admin"}

NoToken == [kind |-> "none", id |-> 0, role |-> ""]
BadToken == [kind |-> "invalid", id |-> 0, role |-> ""]

generateAccessToken(id, role) == [kind |-> "valid", id |-> id, role |-> role]

\* A password the validator accepts, one it accepts too, one it refuses.
StrongPassword == <<"P", "a", "s", "s", "w", "0", "r", "!">>
OtherPassword == <<"O", "t", "h", "e", "r", "1", "n", "?">>
WeakPassword == <<"w", "e", "a", "k">>

\* bcrypt.hash(password, 10), bcrypt.compare(password, hash)
hash(password) == <<"bcrypt", password>>
compare(password, h) == h = hash(password)

\* The accounts of the store: 1 and 2 as POST /auth/signup creates them
\* (role from the validator's list), 3 as the Google strategy creates it,
\* 4 a second landlord, 5 an administrator.
SeedUsers ==
  (1 :> [email |-> "s@x", role |-> "STUDENT", isVerified |-> TRUE, googleId |-> "",
         passwordHash |-> hash(StrongPassword)])
  @@ (2 :> [email |-> "l@x", role |-> "LANDLORD", isVerified |-> TRUE, googleId |-> "",
            passwordHash |-> hash(StrongPassword)])
  @@ (3 :> [email |-> "g@x", role |-> "student", isVerified |-> FALSE, googleId |-> "g3",
            passwordHash |-> <<>>])
  @@ (4 :> [email |-> "m@x", role |-> "LANDLORD", isVerified |-> TRUE, googleId |-> "",
            passwordHash |-> hash(StrongPassword)])
  @@ (5 :> [email |-> "a@x", role |-> "ADMIN", isVerified |-> TRUE, googleId |-> "",
            passwordHash |-> hash(StrongPassword)])

UserIds == DOMAIN SeedUsers

\* A middleware that lets a request without a token through.
authenticateTokenPassesMissing(tok) ==
  IF tok.kind = "invalid" THEN 403 ELSE 0

\* 0: next(); otherwise the status the middleware answers.
authenticateToken(tok) ==
  IF tok.kind = "none" THEN 401
  ELSE IF tok.kind = "invalid" THEN 403
  ELSE 0

\* A role check that lets every verified token pass.
authorizeRolesAnyRole(allowedRoles, tok) ==
  IF tok.kind # "valid" THEN 403 ELSE 0

authorizeRoles(allowedRoles, tok) ==
  IF tok.kind # "valid" \/ tok.role \notin allowedRoles THEN 403 ELSE 0

\* authenticateToken, then authorizeRoles(...allowedRoles), in route order.
Guard(allowedRoles, tok) ==
  IF authenticateToken(tok) # 0 THEN authenticateToken(tok)
  ELSE authorizeRoles(allowedRoles, tok)

(***************************************************************************)
(* The store.                                                              *)
(***************************************************************************)
EmptyDb ==
  [users |-> SeedUsers,
   nextUserId |-> Cardinality(DOMAIN SeedUsers) + 1,
   properties |-> <<>>,
   nextPropertyId |-> 1,
   availability |-> {},
   media |-> <<>>,
   reviews |-> <<>>,
   savedProperties |-> <<>>,
   conversations |-> <<>>,
   nextConversationId |-> 1,
   messages |-> <<>>,
   viewingRequests |-> <<>>,
   nextRequestId |-> 1]

IdleReq ==
  [pc |-> "idle", route |-> "", tok |-> NoToken, id |-> 0, arr |-> <<>>,
   status |-> 0, result |-> {}, before |-> {}, loc |-> <<>>]

Init ==
  /\ db = EmptyDb
  /\ req = [p \in Procs |-> IdleReq]

\* The response is sent: the slot holds the finished request.
Respond(p, route, tok, id, status, result) ==
  req' = [req EXCEPT ![p] =
            [pc |-> "done", route |-> route, tok |-> tok, id |-> id,
             arr |-> <<>>, status |-> status, result |-> result, before |-> {},
             loc |-> <<>>]]

\* The client has read the response; the slot takes the next request.
Reset(p) ==
  /\ req[p].pc = "done"
  /\ req' = [req EXCEPT ![p] = IdleReq]
  /\ UNCHANGED db

(***************************************************************************)
(* Listing store: routes/properties.js.                                    *)
(***************************************************************************)
PropertyIds == 1..MaxProperties

\* A lookup that finds a property under every id.
FindPropertyAlways(id) == TRUE

\* prisma.property.findUnique({ where: { id } })
FindProperty(id) == id \in DOMAIN db.properties

\* A handler that forgets the ownership comparison.
NotOwnerMissingOnly(d, id, tok) == id \notin DOMAIN d.properties

\* if (!property || property.landlordId !== req.user.id)
NotOwner(d, id, tok) ==
  id \notin DOMAIN d.properties \/ d.properties[id].landlordId # tok.id

CalendarOf(d, id) == {a \in d.availability : a.propertyId = id}

\* Some row references property id through a RESTRICT foreign key.
HasDependents(d, id) ==
  \/ \E a \in d.availability : a.propertyId = id
  \/ \E i \in DOMAIN d.media : d.media[i].propertyId = id
  \/ \E i \in DOMAIN d.reviews : d.reviews[i].propertyId = id
  \/ \E i \in DOMAIN d.savedProperties : d.savedProperties[i].propertyId = id
  \/ \E v \in DOMAIN d.viewingRequests : d.viewingRequests[v].propertyId = id

Restrict(f, S) == [x \in S |-> f[x]]

\* POST /properties
PostProperty(p, tok, price, roomType, location) ==
  /\ req[p].pc = "idle"
  /\ LET g == Guard({"LANDLORD"}, tok)
         id == db.nextPropertyId
     IN IF g # 0 THEN Respond(p, "postProperty", tok, 0, g, {}) /\ UNCHANGED db
        ELSE IF price < 0
          THEN Respond(p, "postProperty", tok, 0, 400, {}) /\ UNCHANGED db
        ELSE IF tok.id \notin DOMAIN db.users
          THEN Respond(p, "postProperty", tok, 0, 500, {}) /\ UNCHANGED db
        ELSE /\ id <= MaxProperties
             /\ db' = [db EXCEPT
                  !.properties = (id :> [landlordId |-> tok.id, price |-> price,
                                         roomType |-> roomType, location |-> location,
                                         status |-> ""])
                                 @@ db.properties,
                  !.nextPropertyId = id + 1]
             /\ Respond(p, "postProperty", tok, id, 201, {})

\* prisma.property.update({ where: { id }, data: req.body })
ApplyPatch(prop, patch) ==
  [f \in DOMAIN prop |-> IF f \in DOMAIN patch THEN patch[f] ELSE prop[f]]

\* PUT /properties/:id
PutProperty(p, tok, id, patch) ==
  /\ req[p].pc = "idle"
  /\ LET g == Guard({"LANDLORD"}, tok)
     IN IF g # 0 THEN Respond(p, "putProperty", tok, id, g, {}) /\ UNCHANGED db
        ELSE IF NotOwner(db, id, tok)
          THEN Respond(p, "putProperty", tok, id, 403, {}) /\ UNCHANGED db
        ELSE IF "landlordId" \in DOMAIN patch /\ patch.landlordId \notin DOMAIN db.users
          THEN Respond(p, "putProperty", tok, id, 500, {}) /\ UNCHANGED db
        ELSE /\ db' = [db EXCEPT !.properties[id] = ApplyPatch(@, patch)]
             /\ Respond(p, "putProperty", tok, id, 200, {})

\* DELETE /properties/:id
DeleteProperty(p, tok, id) ==
  /\ req[p].pc = "idle"
  /\ LET g == Guard({"landlord"}, tok)
     IN IF g # 0 THEN Respond(p, "deleteProperty", tok, id, g, {}) /\ UNCHANGED db
        ELSE IF NotOwner(db, id, tok)
          THEN Respond(p, "deleteProperty", tok, id, 403, {}) /\ UNCHANGED db
        ELSE IF HasDependents(db, id)
          THEN Respond(p, "deleteProperty", tok, id, 500, {}) /\ UNCHANGED db
        ELSE /\ db' = [db EXCEPT !.properties =
                         Restrict(@, DOMAIN @ \ {id})]
             /\ Respond(p, "deleteProperty", tok, id, 200, {})

\* GET /properties/:id/availability
GetAvailability(p, id) ==
  /\ req[p].pc = "idle"
  /\ Respond(p, "getAvailability", NoToken, id, 200, CalendarOf(db, id))
  /\ UNCHANGED db

\* GET /properties/:id (include: availability)
GetProperty(p, id) ==
  /\ req[p].pc = "idle"
  /\ IF ~FindProperty(id)
       THEN Respond(p, "getProperty", NoToken, id, 404, {})
       ELSE Respond(p, "getProperty", NoToken, id, 200, CalendarOf(db, id))
  /\ UNCHANGED db

\* Case folding of the letters the locations are written with.
LowerChar(ch) ==
  CASE ch = "K" -> "k" [] ch = "I" -> "i" [] ch = "H" -> "h" [] OTHER -> ch

ToLower(str) == [i \in DOMAIN str |-> LowerChar(str[i])]

Contains(hay, needle) ==
  \E i \in 0..(Len(hay) - Len(needle)) : SubSeq(hay, i + 1, i + Len(needle)) = needle

\* { contains: location, mode: 'insensitive' }
ContainsInsensitive(hay, needle) == Contains(ToLower(hay), ToLower(needle))

\* where: { ...(location && {...}), ...(minPrice && { price: {gte} }),
\*          ...(maxPrice && { price: {lte} }), ...(roomType && { roomType }) }
\* A spread key replaces an earlier key of the same name.  An absent or
\* empty query parameter is <<>> (a price) or "" (the room type).
SearchWhere(location, minPrice, maxPrice, roomType) ==
  (IF roomType # "" THEN ("roomType" :> [op |-> "equals", v |-> roomType]) ELSE <<>>)
  @@ (IF maxPrice # <<>> THEN ("price" :> [op |-> "lte", v |-> maxPrice[1]]) ELSE <<>>)
  @@ (IF minPrice # <<>> THEN ("price" :> [op |-> "gte", v |-> minPrice[1]]) ELSE <<>>)
  @@ (IF location # <<>> THEN ("location" :> [op |-> "contains", v |-> location]) ELSE <<>>)

\* The column a where key filters.
ColumnOf(k) == IF k \in {"priceMin", "priceMax"} THEN "price" ELSE k

\* prisma.property.findMany({ where }): the conjunction of the conditions
MatchesWhere(prop, where) ==
  \A k \in DOMAIN where :
    LET c == where[k]
        x == prop[ColumnOf(k)]
    IN CASE c.op = "contains" -> ContainsInsensitive(x, c.v)
         [] c.op = "gte" -> x >= c.v
         [] c.op = "lte" -> x <= c.v
         [] c.op = "equals" -> x = c.v

\* GET /properties
GetProperties(p, location, minPrice, maxPrice, roomType) ==
  /\ req[p].pc = "idle"
  /\ UNCHANGED db
  /\ req' = [req EXCEPT ![p] =
       [pc |-> "done", route |-> "getProperties", tok |-> NoToken, id |-> 0,
        arr |-> <<>>, status |-> 200,
        result |-> {id \in DOMAIN db.properties :
                      MatchesWhere(db.properties[id],
                                   SearchWhere(location, minPrice, maxPrice, roomType))},
        before |-> {},
        loc |-> [location |-> location, minPrice |-> minPrice,
                 maxPrice |-> maxPrice, roomType |-> roomType]]]

\* The request bodies of PUT /properties/:id/availability: arrays of
\* { date, isAvailable }.
Entry == [date : Dates, isAvailable : BOOLEAN]

RECURSIVE SeqsUpTo(_, _)
SeqsUpTo(S, n) ==
  IF n = 0 THEN {<<>>}
  ELSE LET shorter == SeqsUpTo(S, n - 1)
       IN shorter \cup {Append(s, x) : s \in {t \in shorter : Len(t) = n - 1}, x \in S}

EntryArrays == SeqsUpTo(Entry, MaxEntries)

\* availabilityArray.map(dateObj => ({ propertyId: id, ... }))
RowsOf(id, arr) ==
  {[propertyId |-> id, date |-> arr[i].date, isAvailable |-> arr[i].isAvailable] :
     i \in DOMAIN arr}

\* @@unique([propertyId, date]): one INSERT of all the rows, refused as a
\* whole when two of them, or one of them and a stored row, share a day.
CreateManyFails(d, id, arr) ==
  \/ \E i, j \in DOMAIN arr : i # j /\ arr[i].date = arr[j].date
  \/ \E i \in DOMAIN arr : \E a \in CalendarOf(d, id) : a.date = arr[i].date
  \/ id \notin DOMAIN d.properties

\* PUT /properties/:id/availability: the middleware and findUnique
PutAvailability(p, tok, id, arr) ==
  /\ req[p].pc = "idle"
  /\ UNCHANGED db
  /\ LET g == Guard({"landlord"}, tok)
         r == [pc |-> "done", route |-> "putAvailability", tok |-> tok, id |-> id,
               arr |-> arr, status |-> 0, result |-> {},
               before |-> CalendarOf(db, id), loc |-> <<>>]
     IN IF g # 0 THEN req' = [req EXCEPT ![p] = [r EXCEPT !.status = g]]
        ELSE IF NotOwner(db, id, tok)
          THEN req' = [req EXCEPT ![p] = [r EXCEPT !.status = 403]]
        ELSE req' = [req EXCEPT ![p] = [r EXCEPT !.pc = "deleteMany"]]

\* await prisma.availability.deleteMany({ where: { propertyId: id } })
PutAvailabilityDeleteMany(p) ==
  /\ req[p].pc = "deleteMany"
  /\ db' = [db EXCEPT !.availability = @ \ CalendarOf(db, req[p].id)]
  /\ req' = [req EXCEPT ![p].pc = "createMany"]

\* await prisma.availability.createMany({ data: ... }); a throw is caught: 500
PutAvailabilityCreateMany(p) ==
  /\ req[p].pc = "createMany"
  /\ IF CreateManyFails(db, req[p].id, req[p].arr)
       THEN /\ UNCHANGED db
            /\ req' = [req EXCEPT ![p].pc = "done", ![p].status = 500]
       ELSE /\ db' = [db EXCEPT !.availability = @ \cup RowsOf(req[p].id, req[p].arr)]
            /\ req' = [req EXCEPT ![p].pc = "done", ![p].status = 200]

\* POST /properties/:id/media
PostMedia(p, tok, id, url, type) ==
  /\ req[p].pc = "idle"
  /\ LET g == Guard({"landlord"}, tok)
     IN IF g # 0 THEN Respond(p, "postMedia", tok, id, g, {}) /\ UNCHANGED db
        ELSE IF type \notin {"image", "video"}
          THEN Respond(p, "postMedia", tok, id, 400, {}) /\ UNCHANGED db
        ELSE IF id \notin DOMAIN db.properties
          THEN Respond(p, "postMedia", tok, id, 500, {}) /\ UNCHANGED db
        ELSE /\ Len(db.media) < MaxRows
             /\ db' = [db EXCEPT !.media =
                         Append(@, [propertyId |-> id, url |-> url, type |-> type])]
             /\ Respond(p, "postMedia", tok, id, 201, {})

(***************************************************************************)
(* Viewing requests: routes/requests.js.                                   *)
(***************************************************************************)
RequestIds == 1..MaxRows

\* POST /viewing-requests
PostRequest(p, tok, pid, scheduledAt) ==
  /\ req[p].pc = "idle"
  /\ LET g == Guard({"student"}, tok)
         id == db.nextRequestId
     IN IF g # 0 THEN Respond(p, "postRequest", tok, pid, g, {}) /\ UNCHANGED db
        ELSE IF ~FindProperty(pid)
          THEN Respond(p, "postRequest", tok, pid, 404, {}) /\ UNCHANGED db
        ELSE /\ id <= MaxRows
             /\ db' = [db EXCEPT
                  !.viewingRequests = (id :> [propertyId |-> pid, studentId |-> tok.id,
                                              scheduledAt |-> scheduledAt,
                                              status |-> "pending"])
                                      @@ db.viewingRequests,
                  !.nextRequestId = id + 1]
             /\ Respond(p, "postRequest", tok, pid, 201, {id})

\* A join that takes every stored property.
PropertiesOfAnyone(d, landlordId) == DOMAIN d.properties

\* prisma.property.findMany({ where: { landlordId: req.user.id } })
PropertiesOf(d, landlordId) ==
  {i \in DOMAIN d.properties : d.properties[i].landlordId = landlordId}

\* GET /viewing-requests
GetRequests(p, tok) ==
  /\ req[p].pc = "idle"
  /\ UNCHANGED db
  /\ LET a == authenticateToken(tok)
         propertyIds == PropertiesOf(db, tok.id)
     IN IF a # 0 THEN Respond(p, "getRequests", tok, 0, a, {})
        ELSE IF tok.role = "landlord"
          THEN Respond(p, "getRequests", tok, 0, 200,
                 {v \in DOMAIN db.viewingRequests :
                    db.viewingRequests[v].propertyId \in propertyIds})
        ELSE IF tok.role = "student"
          THEN Respond(p, "getRequests", tok, 0, 200,
                 {v \in DOMAIN db.viewingRequests :
                    db.viewingRequests[v].studentId = tok.id})
        ELSE Respond(p, "getRequests", tok, 0, 403, {})

\* PUT /viewing-requests/:id
PutRequest(p, tok, id, status) ==
  /\ req[p].pc = "idle"
  /\ LET g == Guard({"landlord"}, tok)
     IN IF g # 0 THEN Respond(p, "putRequest", tok, id, g, {}) /\ UNCHANGED db
        ELSE IF status \notin {"confirmed", "declined"}
          THEN Respond(p, "putRequest", tok, id, 400, {}) /\ UNCHANGED db
        ELSE IF id \notin DOMAIN db.viewingRequests
          THEN Respond(p, "putRequest", tok, id, 404, {}) /\ UNCHANGED db
        ELSE IF db.properties[db.viewingRequests[id].propertyId].landlordId # tok.id
          THEN Respond(p, "putRequest", tok, id, 403, {}) /\ UNCHANGED db
        ELSE /\ db' = [db EXCEPT !.viewingRequests[id].status = status]
             /\ Respond(p, "putRequest", tok, id, 200, {})

\* A check that lets only the requesting student cancel.
MayCancelStudentOnly(d, id, userId) == userId = d.viewingRequests[id].studentId

\* isOwner || isLandlord
MayCancel(d, id, userId) ==
  \/ userId = d.viewingRequests[id].studentId
  \/ userId = d.properties[d.viewingRequests[id].propertyId].landlordId

\* A handler that deletes the row before it checks who asks.
DeleteRequestChecksLast(p, tok, id) ==
  /\ req[p].pc = "idle"
  /\ LET a == authenticateToken(tok)
     IN IF a # 0 THEN Respond(p, "deleteRequest", tok, id, a, {}) /\ UNCHANGED db
        ELSE IF id \notin DOMAIN db.viewingRequests
          THEN Respond(p, "deleteRequest", tok, id, 404, {}) /\ UNCHANGED db
        ELSE /\ db' = [db EXCEPT !.viewingRequests = Restrict(@, DOMAIN @ \ {id})]
             /\ IF ~MayCancel(db, id, tok.id)
                  THEN Respond(p, "deleteRequest", tok, id, 403, {})
                  ELSE Respond(p, "deleteRequest", tok, id, 200, {})

\* DELETE /viewing-requests/:id
DeleteRequest(p, tok, id) ==
  /\ req[p].pc = "idle"
  /\ LET a == authenticateToken(tok)
     IN IF a # 0 THEN Respond(p, "deleteRequest", tok, id, a, {}) /\ UNCHANGED db
        ELSE IF id \notin DOMAIN db.viewingRequests
          THEN Respond(p, "deleteRequest", tok, id, 404, {}) /\ UNCHANGED db
        ELSE IF ~MayCancel(db, id, tok.id)
          THEN Respond(p, "deleteRequest", tok, id, 403, {}) /\ UNCHANGED db
        ELSE /\ db' = [db EXCEPT !.viewingRequests = Restrict(@, DOMAIN @ \ {id})]
             /\ Respond(p, "deleteRequest", tok, id, 200, {})

(***************************************************************************)
(* Conversation store: routes/messages.js.                                 *)
(***************************************************************************)
ConversationIds == 1..MaxConversations

\* The conversations stored for the pair (studentId, landlordId).
ConversationsOf(d, s, l) ==
  {c \in DOMAIN d.conversations :
     d.conversations[c].studentId = s /\ d.conversations[c].landlordId = l}

\* A store without the unique index on the pair.
NoUniquePair(d, s, l) == FALSE

\* @@unique([studentId, landlordId]): an insert for a stored pair is refused.
UniquePairTaken(d, s, l) == ConversationsOf(d, s, l) # {}

\* A pairing that does not look at the recipient's role.
StudentToAnyone(senderRole, recipientRole) == senderRole = "student"

\* req.user.role === 'student' && recipient.role === 'landlord'
StudentToLandlord(senderRole, recipientRole) ==
  senderRole = "student" /\ recipientRole = "landlord"

\* req.user.role === 'landlord' && recipient.role === 'student'
LandlordToStudent(senderRole, recipientRole) ==
  senderRole = "landlord" /\ recipientRole = "student"

\* POST /chat/messages: the middleware, the body check, the recipient
\* lookup and the choice of the pair's roles.
PostMessage(p, tok, recipientId, content) ==
  /\ req[p].pc = "idle"
  /\ UNCHANGED db
  /\ LET a == authenticateToken(tok)
         r == [pc |-> "done", route |-> "postMessage", tok |-> tok,
               id |-> recipientId, arr |-> <<>>, status |-> 0, result |-> {},
               before |-> {}, loc |-> [content |-> content]]
         pair(s, l) == [r EXCEPT !.pc = "upsertFind",
                          !.loc = [content |-> content, studentId |-> s,
                                   landlordId |-> l, conversationId |-> 0]]
     IN IF a # 0 THEN req' = [req EXCEPT ![p] = [r EXCEPT !.status = a]]
        ELSE IF recipientId = 0 \/ content = ""
          THEN req' = [req EXCEPT ![p] = [r EXCEPT !.status = 400]]
        ELSE IF recipientId \notin DOMAIN db.users \/ recipientId = tok.id
          THEN req' = [req EXCEPT ![p] = [r EXCEPT !.status = 400]]
        ELSE IF StudentToLandlord(tok.role, db.users[recipientId].role)
          THEN req' = [req EXCEPT ![p] = pair(tok.id, recipientId)]
        ELSE IF LandlordToStudent(tok.role, db.users[recipientId].role)
          THEN req' = [req EXCEPT ![p] = pair(recipientId, tok.id)]
        ELSE req' = [req EXCEPT ![p] = [r EXCEPT !.status = 400]]

\* prisma.conversation.upsert: the lookup by the unique pair
PostMessageUpsertFind(p) ==
  /\ req[p].pc = "upsertFind"
  /\ UNCHANGED db
  /\ LET found == ConversationsOf(db, req[p].loc.studentId, req[p].loc.landlordId)
     IN IF found # {}
          THEN req' = [req EXCEPT ![p].pc = "createMessage",
                                  ![p].loc.conversationId = CHOOSE c \in found : TRUE]
          ELSE req' = [req EXCEPT ![p].pc = "upsertCreate"]

\* prisma.conversation.upsert: the insert when the lookup found none; a
\* refused insert throws and is caught: 500
PostMessageUpsertCreate(p) ==
  /\ req[p].pc = "upsertCreate"
  /\ LET s == req[p].loc.studentId
         l == req[p].loc.landlordId
         c == db.nextConversationId
     IN IF UniquePairTaken(db, s, l)
          THEN /\ UNCHANGED db
               /\ req' = [req EXCEPT ![p].pc = "done", ![p].status = 500]
          ELSE /\ c <= MaxConversations
               /\ db' = [db EXCEPT
                    !.conversations = (c :> [studentId |-> s, landlordId |-> l])
                                      @@ db.conversations,
                    !.nextConversationId = c + 1]
               /\ req' = [req EXCEPT ![p].pc = "createMessage",
                                     ![p].loc.conversationId = c]

\* `content` VARCHAR(191) NOT NULL
ContentWidth == 191

\* prisma.message.create({ data: { conversationId, senderId, content } }); a
\* content wider than its column is refused by the store: caught, 500
PostMessageCreate(p) ==
  /\ req[p].pc = "createMessage"
  /\ IF Len(req[p].loc.content) > ContentWidth
       THEN /\ UNCHANGED db
            /\ req' = [req EXCEPT ![p].pc = "done", ![p].status = 500]
       ELSE /\ Len(db.messages) < MaxMessages
            /\ LET m == [id |-> Len(db.messages) + 1,
                         conversationId |-> req[p].loc.conversationId,
                         senderId |-> req[p].tok.id, receiverId |-> 0,
                         content |-> req[p].loc.content]
               IN /\ db' = [db EXCEPT !.messages = Append(@, m)]
                  /\ req' = [req EXCEPT ![p].pc = "done", ![p].status = 201,
                                        ![p].result = <<m>>]

\* where: { conversationId }, orderBy: { createdAt: 'asc' }
MessagesOf(d, c) ==
  SelectSeq(d.messages, LAMBDA m : m.conversationId = c)

\* A handler that checks only that the conversation exists.
NotParticipantMissingOnly(d, c, userId) == c \notin DOMAIN d.conversations

\* !conversation || (studentId !== userId && landlordId !== userId)
NotParticipant(d, c, userId) ==
  \/ c \notin DOMAIN d.conversations
  \/ (d.conversations[c].studentId # userId /\ d.conversations[c].landlordId # userId)

\* GET /chat/messages?conversationId=c (c = 0: parseInt gives 0 or NaN)
GetMessages(p, tok, c) ==
  /\ req[p].pc = "idle"
  /\ UNCHANGED db
  /\ LET a == authenticateToken(tok)
     IN IF a # 0 THEN Respond(p, "getMessages", tok, c, a, <<>>)
        ELSE IF c = 0 THEN Respond(p, "getMessages", tok, c, 400, <<>>)
        ELSE IF NotParticipant(db, c, tok.id)
          THEN Respond(p, "getMessages", tok, c, 403, <<>>)
        ELSE Respond(p, "getMessages", tok, c, 200, MessagesOf(db, c))

RECURSIVE Descending(_)
\* The numbers of S, the largest first.
Descending(S) ==
  IF S = {} THEN <<>>
  ELSE LET m == CHOOSE x \in S : \A y \in S : y <= x
       IN <<m>> \o Descending(S \ {m})

\* messages: { orderBy: { createdAt: 'desc' }, take: 1 }
LatestMessage(d, c) ==
  LET ms == MessagesOf(d, c)
  IN IF ms = <<>> THEN <<>> ELSE <<ms[Len(ms)]>>

\* GET /chat/conversations.  orderBy: { updatedAt: 'desc' }: updatedAt is
\* written when the row is created and by no later statement of the
\* handlers (the upsert's update is empty), so it orders as the id does.
GetConversations(p, tok) ==
  /\ req[p].pc = "idle"
  /\ UNCHANGED db
  /\ LET a == authenticateToken(tok)
         mine == {c \in DOMAIN db.conversations :
                    tok.id \in {db.conversations[c].studentId,
                                db.conversations[c].landlordId}}
         order == Descending(mine)
     IN IF a # 0 THEN Respond(p, "getConversations", tok, 0, a, <<>>)
        ELSE Respond(p, "getConversations", tok, 0, 200,
               [i \in DOMAIN order |->
                  [id |-> order[i], messages |-> LatestMessage(db, order[i])]])

(***************************************************************************)
(* Engagement store: routes/savedProperties.js, routes/reviews.js.         *)
(***************************************************************************)
\* The stored rows of the pair (userId, propertyId).
SavedRows(d, u, pid) ==
  {i \in DOMAIN d.savedProperties :
     d.savedProperties[i].userId = u /\ d.savedProperties[i].propertyId = pid}

\* A handler whose duplicate lookup finds nothing.
SavedExistsNever(d, u, pid) == FALSE

\* prisma.savedProperties.findUnique({ where: { userId_propertyId } })
SavedExists(d, u, pid) == SavedRows(d, u, pid) # {}

\* POST /saved-properties/:propertyId: the middleware and the property lookup
PostSaved(p, tok, pid) ==
  /\ req[p].pc = "idle"
  /\ UNCHANGED db
  /\ LET g == Guard({"student"}, tok)
     IN IF g # 0 THEN Respond(p, "postSaved", tok, pid, g, {})
        ELSE IF pid \notin DOMAIN db.properties
          THEN Respond(p, "postSaved", tok, pid, 404, {})
        ELSE req' = [req EXCEPT ![p] =
               [pc |-> "findSaved", route |-> "postSaved", tok |-> tok, id |-> pid,
                arr |-> <<>>, status |-> 0, result |-> {}, before |-> {},
                loc |-> <<>>]]

\* the duplicate check
PostSavedFind(p) ==
  /\ req[p].pc = "findSaved"
  /\ UNCHANGED db
  /\ IF SavedExists(db, req[p].tok.id, req[p].id)
       THEN req' = [req EXCEPT ![p].pc = "done", ![p].status = 409]
       ELSE req' = [req EXCEPT ![p].pc = "createSaved"]

\* prisma.savedProperties.create; the unique index on the pair and the
\* foreign key to the property refuse the insert: caught, 500
PostSavedCreate(p) ==
  /\ req[p].pc = "createSaved"
  /\ LET u == req[p].tok.id
         pid == req[p].id
     IN IF SavedRows(db, u, pid) # {} \/ pid \notin DOMAIN db.properties
          THEN /\ UNCHANGED db
               /\ req' = [req EXCEPT ![p].pc = "done", ![p].status = 500]
          ELSE /\ db' = [db EXCEPT !.savedProperties =
                           Append(@, [userId |-> u, propertyId |-> pid])]
               /\ req' = [req EXCEPT ![p].pc = "done", ![p].status = 201]

\* The stored reviews of the pair (studentId, propertyId).
ReviewRows(d, u, pid) ==
  {i \in DOMAIN d.reviews :
     d.reviews[i].studentId = u /\ d.reviews[i].propertyId = pid}

\* A handler whose duplicate lookup finds nothing.
ReviewExistsNever(d, u, pid) == FALSE

\* prisma.review.findFirst({ where: { studentId, propertyId } })
ReviewExists(d, u, pid) == ReviewRows(d, u, pid) # {}

\* POST /reviews: the middleware, the validators, the property lookup and
\* the self-review check
PostReview(p, tok, pid, landlordId, rating) ==
  /\ req[p].pc = "idle"
  /\ UNCHANGED db
  /\ LET g == Guard({"student"}, tok)
         r == [pc |-> "done", route |-> "postReview", tok |-> tok, id |-> pid,
               arr |-> <<>>, status |-> 0, result |-> {}, before |-> {},
               loc |-> [landlordId |-> landlordId, rating |-> rating]]
     IN IF g # 0 THEN req' = [req EXCEPT ![p] = [r EXCEPT !.status = g]]
        ELSE IF rating < 1 \/ rating > 5
          THEN req' = [req EXCEPT ![p] = [r EXCEPT !.status = 400]]
        ELSE IF pid \notin DOMAIN db.properties
          THEN req' = [req EXCEPT ![p] = [r EXCEPT !.status = 404]]
        ELSE IF db.properties[pid].landlordId = tok.id
          THEN req' = [req EXCEPT ![p] = [r EXCEPT !.status = 403]]
        ELSE req' = [req EXCEPT ![p] = [r EXCEPT !.pc = "findReview"]]

\* the duplicate check
PostReviewFind(p) ==
  /\ req[p].pc = "findReview"
  /\ UNCHANGED db
  /\ IF ReviewExists(db, req[p].tok.id, req[p].id)
       THEN req' = [req EXCEPT ![p].pc = "done", ![p].status = 409]
       ELSE req' = [req EXCEPT ![p].pc = "createReview"]

\* prisma.review.create; the foreign key to the property refuses the
\* insert when the property is gone: caught, 500
PostReviewCreate(p) ==
  /\ req[p].pc = "createReview"
  /\ IF req[p].id \notin DOMAIN db.properties
       THEN /\ UNCHANGED db
            /\ req' = [req EXCEPT ![p].pc = "done", ![p].status = 500]
       ELSE /\ db' = [db EXCEPT !.reviews =
                        Append(@, [propertyId |-> req[p].id,
                                   landlordId |-> req[p].loc.landlordId,
                                   studentId |-> req[p].tok.id,
                                   rating |-> req[p].loc.rating])]
            /\ req' = [req EXCEPT ![p].pc = "done", ![p].status = 201]

\* GET /saved-properties (orderBy: { createdAt: 'desc' })
GetSaved(p, tok) ==
  /\ req[p].pc = "idle"
  /\ UNCHANGED db
  /\ LET g == Guard({"student"}, tok)
         rows == SelectSeq(db.savedProperties, LAMBDA r : r.userId = tok.id)
     IN IF g # 0 THEN Respond(p, "getSaved", tok, 0, g, <<>>)
        ELSE Respond(p, "getSaved", tok, 0, 200,
               [i \in DOMAIN rows |-> rows[Len(rows) + 1 - i].propertyId])

\* DELETE /saved-properties/:propertyId (P2025: no such row, 404)
DeleteSaved(p, tok, pid) ==
  /\ req[p].pc = "idle"
  /\ LET g == Guard({"student"}, tok)
     IN IF g # 0 THEN Respond(p, "deleteSaved", tok, pid, g, {}) /\ UNCHANGED db
        ELSE IF SavedRows(db, tok.id, pid) = {}
          THEN Respond(p, "deleteSaved", tok, pid, 404, {}) /\ UNCHANGED db
        ELSE /\ db' = [db EXCEPT !.savedProperties =
                         SelectSeq(@, LAMBDA r : ~(r.userId = tok.id /\ r.propertyId = pid))]
             /\ Respond(p, "deleteSaved", tok, pid, 200, {})

(***************************************************************************)
(* Moderation: routes/admin.js.                                            *)
(***************************************************************************)
\* GET /admin/listings/pending
GetPendingListings(p, tok) ==
  /\ req[p].pc = "idle"
  /\ UNCHANGED db
  /\ LET g == Guard({"admin"}, tok)
     IN IF g # 0 THEN Respond(p, "getPendingListings", tok, 0, g, {})
        ELSE Respond(p, "getPendingListings", tok, 0, 200,
               {i \in DOMAIN db.properties : db.properties[i].status = "PENDING"})

\* PUT /admin/listings/:id/approve and /decline (status: the new status);
\* an update of a property that is not stored throws: 500
PutListingStatus(p, tok, id, status) ==
  /\ req[p].pc = "idle"
  /\ LET g == Guard({"admin"}, tok)
     IN IF g # 0 THEN Respond(p, "putListingStatus", tok, id, g, {}) /\ UNCHANGED db
        ELSE IF id \notin DOMAIN db.properties
          THEN Respond(p, "putListingStatus", tok, id, 500, {}) /\ UNCHANGED db
        ELSE /\ db' = [db EXCEPT !.properties[id].status = status]
             /\ Respond(p, "putListingStatus", tok, id, 200, {})

\* GET /admin/users/spam: no handler sets isFlagged
GetSpamUsers(p, tok) ==
  /\ req[p].pc = "idle"
  /\ UNCHANGED db
  /\ LET g == Guard({"admin"}, tok)
     IN IF g # 0 THEN Respond(p, "getSpamUsers", tok, 0, g, {})
        ELSE Respond(p, "getSpamUsers", tok, 0, 200, {})

\* Some row references user id through a RESTRICT foreign key.
UserHasDependents(d, id) ==
  \/ \E i \in DOMAIN d.properties : d.properties[i].landlordId = id
  \/ \E c \in DOMAIN d.conversations :
       id \in {d.conversations[c].studentId, d.conversations[c].landlordId}
  \/ \E i \in DOMAIN d.messages : d.messages[i].senderId = id
  \/ \E i \in DOMAIN d.reviews : d.reviews[i].studentId = id
  \/ \E i \in DOMAIN d.savedProperties : d.savedProperties[i].userId = id
  \/ \E v \in DOMAIN d.viewingRequests : d.viewingRequests[v].studentId = id

\* DELETE /admin/users/:id
DeleteUser(p, tok, id) ==
  /\ req[p].pc = "idle"
  /\ LET g == Guard({"admin"}, tok)
     IN IF g # 0 THEN Respond(p, "deleteUser", tok, id, g, {}) /\ UNCHANGED db
        ELSE IF id \notin DOMAIN db.users \/ UserHasDependents(db, id)
          THEN Respond(p, "deleteUser", tok, id, 500, {}) /\ UNCHANGED db
        ELSE /\ db' = [db EXCEPT !.users = Restrict(@, DOMAIN @ \ {id})]
             /\ Respond(p, "deleteUser", tok, id, 200, {})

\* GET /admin/analytics
GetAnalytics(p, tok) ==
  /\ req[p].pc = "idle"
  /\ UNCHANGED db
  /\ LET g == Guard({"admin"}, tok)
     IN IF g # 0 THEN Respond(p, "getAnalytics", tok, 0, g, {})
        ELSE Respond(p, "getAnalytics", tok, 0, 200,
               {<<"users", Cardinality(DOMAIN db.users)>>,
                <<"properties", Cardinality(DOMAIN db.properties)>>,
                <<"bookings", Cardinality(DOMAIN db.viewingRequests)>>,
                <<"messages", Len(db.messages)>>})

(***************************************************************************)
(* Accounts: routes/auth.js and the Google strategy of index.js.           *)
(***************************************************************************)
LowerLetters == {"a", "e", "h", "k", "n", "r", "s", "t", "w"}
UpperLetters == {"O", "P"}
Digits == {"0", "1"}
Specials == {"!", "?"}

\* isLength({ min: 8 }) and the four matches(...) of the validator
passwordValidator(password) ==
  /\ Len(password) >= 8
  /\ \E i \in DOMAIN password : password[i] \in LowerLetters
  /\ \E i \in DOMAIN password : password[i] \in UpperLetters
  /\ \E i \in DOMAIN password : password[i] \in Digits
  /\ \E i \in DOMAIN password : password[i] \in Specials

\* body('email').isEmail()
isEmail(email) == email # "nomail"

generateRefreshToken(id, role) == [kind |-> "refresh", id |-> id, role |-> role]

\* jwt.sign({ userId: user.id }, ACCESS_TOKEN_SECRET)
VerificationToken(userId) == [kind |-> "verification", userId |-> userId]

\* The cookie and the body of a successful login.
IssuedTokens(d, id) ==
  {<<"accessToken", generateAccessToken(id, d.users[id].role)>>,
   <<"refreshToken", generateRefreshToken(id, d.users[id].role)>>}

\* prisma.user.findUnique({ where: { email } })
UsersByEmail(d, email) == {u \in DOMAIN d.users : d.users[u].email = email}

\* prisma.user.findUnique({ where: { googleId } })
UsersByGoogleId(d, googleId) == {u \in DOMAIN d.users : d.users[u].googleId = googleId}

\* A table without the unique index on email.
NoUniqueEmail(d, email) == FALSE

\* email String @unique: an insert with a stored email is refused.
UniqueEmailTaken(d, email) == UsersByEmail(d, email) # {}

\* A table without the unique index on googleId.
NoUniqueGoogleId(d, googleId) == FALSE

\* googleId String? @unique
UniqueGoogleIdTaken(d, googleId) == UsersByGoogleId(d, googleId) # {}

\* The slot of an account request.
AuthReq(pc, route, status, result, loc) ==
  [pc |-> pc, route |-> route, tok |-> NoToken, id |-> 0, arr |-> <<>>,
   status |-> status, result |-> result, before |-> {}, loc |-> loc]

\* POST /auth/signup: the validators
Signup(p, email, password, role) ==
  /\ req[p].pc = "idle"
  /\ UNCHANGED db
  /\ LET loc == [email |-> email, password |-> password, role |-> role]
     IN IF ~isEmail(email) \/ ~passwordValidator(password) \/ role \notin RoleEnum
          THEN req' = [req EXCEPT ![p] = AuthReq("done", "signup", 400, {}, loc)]
          ELSE req' = [req EXCEPT ![p] = AuthReq("signupFind", "signup", 0, {}, loc)]

\* POST /auth/signup: the lookup of the email
SignupFind(p) ==
  /\ req[p].pc = "signupFind"
  /\ UNCHANGED db
  /\ IF UsersByEmail(db, req[p].loc.email) # {}
       THEN req' = [req EXCEPT ![p].pc = "done", ![p].status = 400]
       ELSE req' = [req EXCEPT ![p].pc = "signupCreate"]

\* POST /auth/signup: the insert, then the verification mail (sent: the
\* mail went out; a throw of either is caught: 500)
SignupCreate(p, sent) ==
  /\ req[p].pc = "signupCreate"
  /\ LET id == db.nextUserId
         l == req[p].loc
     IN IF UniqueEmailTaken(db, l.email)
          THEN /\ req' = [req EXCEPT ![p].pc = "done", ![p].status = 500]
               /\ UNCHANGED db
          ELSE /\ id <= Cardinality(DOMAIN SeedUsers) + MaxSignups
               /\ db' = [db EXCEPT
                    !.users = (id :> [email |-> l.email, role |-> l.role,
                                      isVerified |-> FALSE, googleId |-> "",
                                      passwordHash |-> hash(l.password)])
                              @@ db.users,
                    !.nextUserId = id + 1]
               /\ req' = [req EXCEPT ![p].pc = "done", ![p].id = id,
                            ![p].status = IF sent THEN 201 ELSE 500,
                            ![p].result = IF sent THEN {VerificationToken(id)} ELSE {}]

\* GET /auth/verify?token=...: a token that jwt.verify refuses, a payload
\* without userId and an update of no row all end in the catch: 400
Verify(p, token) ==
  /\ req[p].pc = "idle"
  /\ IF token.kind # "verification" \/ token.userId \notin DOMAIN db.users
       THEN /\ req' = [req EXCEPT ![p] =
                         AuthReq("done", "verify", 400, {}, [token |-> token])]
            /\ UNCHANGED db
       ELSE /\ db' = [db EXCEPT !.users[token.userId].isVerified = TRUE]
            /\ req' = [req EXCEPT ![p] =
                         [AuthReq("done", "verify", 200, {}, [token |-> token])
                            EXCEPT !.id = token.userId]]

\* A login that does not look at isVerified.
NotVerifiedNever(user) == FALSE

\* if (!user.isVerified)
NotVerified(user) == ~user.isVerified

\* POST /auth/login
Login(p, email, password) ==
  /\ req[p].pc = "idle"
  /\ UNCHANGED db
  /\ LET loc == [email |-> email, password |-> password]
         found == UsersByEmail(db, email)
         id == CHOOSE u \in found : TRUE
         answer(status, result) ==
           req' = [req EXCEPT ![p] =
                     [AuthReq("done", "login", status, result, loc)
                        EXCEPT !.id = IF found = {} THEN 0 ELSE id]]
     IN IF ~isEmail(email) THEN answer(400, {})
        ELSE IF found = {} THEN answer(400, {})
        ELSE IF NotVerified(db.users[id]) THEN answer(403, {})
        ELSE IF db.users[id].passwordHash = <<>> THEN answer(500, {})
        ELSE IF ~compare(password, db.users[id].passwordHash) THEN answer(400, {})
        ELSE answer(200, IssuedTokens(db, id))

\* The Google strategy's verify callback: the lookup by profile.id
OAuthFind(p, profile) ==
  /\ req[p].pc = "idle"
  /\ UNCHANGED db
  /\ LET found == UsersByGoogleId(db, profile.id)
         id == CHOOSE u \in found : TRUE
     IN IF found # {}
          THEN req' = [req EXCEPT ![p] =
                         [AuthReq("done", "oauth", 302, IssuedTokens(db, id), profile)
                            EXCEPT !.id = id]]
          ELSE req' = [req EXCEPT ![p] = AuthReq("oauthCreate", "oauth", 0, {}, profile)]

\* The Google strategy's verify callback: the insert.  The data carries
\* emailVerified, which is no column of User: isVerified keeps its default.
\* done(error) ends the request with 500.
OAuthCreate(p) ==
  /\ req[p].pc = "oauthCreate"
  /\ LET id == db.nextUserId
         profile == req[p].loc
     IN IF UniqueGoogleIdTaken(db, profile.id) \/ UniqueEmailTaken(db, profile.email)
          THEN /\ req' = [req EXCEPT ![p].pc = "done", ![p].status = 500]
               /\ UNCHANGED db
          ELSE /\ id <= Cardinality(DOMAIN SeedUsers) + MaxSignups
               /\ db' = [db EXCEPT
                    !.users = (id :> [email |-> profile.email, role |-> "student",
                                      isVerified |-> FALSE, googleId |-> profile.id,
                                      passwordHash |-> <<>>])
                              @@ db.users,
                    !.nextUserId = id + 1]
               /\ req' = [req EXCEPT ![p].pc = "done", ![p].id = id,
                            ![p].status = 302, ![p].result = IssuedTokens(db', id)]

(***************************************************************************)
(* Specifications.  The inputs of the requests are drawn from small sets.  *)
(***************************************************************************)
\* The rows of the store, the accounts aside.
StoreSize(d) ==
  Cardinality(DOMAIN d.properties) + Cardinality(d.availability) + Len(d.media)
    + Len(d.reviews) + Len(d.savedProperties) + Cardinality(DOMAIN d.conversations)
    + Len(d.messages) + Cardinality(DOMAIN d.viewingRequests)

AllIdle == \A q \in Procs : req[q].pc = "idle"

Landlords == {2, 4}

\* Tokens of the two landlord accounts, in the casing of either literal of
\* the gates.
LandlordTokens ==
  {generateAccessToken(u, r) : u \in Landlords, r \in {"LANDLORD", "landlord"}}

Prices == {1}
RoomTypes == {"SINGLE"}
Locations == {<<"K", "i">>}
Patches == {[price |-> 2], [landlordId |-> 4]}

\* Replacement arrays: none, one entry, another date, one date twice.
ListingArrays ==
  {<<>>,
   <<[date |-> 1, isAvailable |-> TRUE]>>,
   <<[date |-> 2, isAvailable |-> FALSE]>>,
   <<[date |-> 1, isAvailable |-> TRUE], [date |-> 1, isAvailable |-> FALSE]>>}

(* The listing routes, one request at a time. *)
NextListing ==
  \E p \in {1} :
    \/ \E tok \in LandlordTokens, price \in Prices, rt \in RoomTypes, l \in Locations :
         PostProperty(p, tok, price, rt, l)
    \/ \E tok \in LandlordTokens, id \in PropertyIds, patch \in Patches :
         PutProperty(p, tok, id, patch)
    \/ \E tok \in LandlordTokens, id \in PropertyIds : DeleteProperty(p, tok, id)
    \/ \E id \in PropertyIds : GetAvailability(p, id)
    \/ \E id \in PropertyIds : GetProperty(p, id)
    \/ \E tok \in LandlordTokens, id \in PropertyIds, arr \in ListingArrays :
         PutAvailability(p, tok, id, arr)
    \/ PutAvailabilityDeleteMany(p)
    \/ PutAvailabilityCreateMany(p)
    \/ Reset(p)

SpecListing == Init /\ [][NextListing]_vars

\* A replacement of some calendar is between its first and its last step.
Replacing ==
  \E q \in Procs :
    req[q].route = "putAvailability" /\ req[q].pc \in {"deleteMany", "createMany"}

\* Replacement arrays of available dates, a date twice included.
CalendarArrays ==
  {arr \in EntryArrays : \A i \in DOMAIN arr : arr[i].isAvailable}

(* The availability routes: one replacement at a time, reads running       *)
(* concurrently with it.                                                   *)
NextCalendar ==
  \E p \in Procs :
    \/ \E price \in Prices, rt \in RoomTypes, l \in Locations :
         PostProperty(p, generateAccessToken(2, "LANDLORD"), price, rt, l)
    \/ \E id \in PropertyIds : GetAvailability(p, id)
    \/ \E id \in PropertyIds : GetProperty(p, id)
    \/ /\ ~Replacing
       /\ \E id \in PropertyIds, arr \in CalendarArrays :
            PutAvailability(p, generateAccessToken(2, "landlord"), id, arr)
    \/ PutAvailabilityDeleteMany(p)
    \/ PutAvailabilityCreateMany(p)
    \/ Reset(p)

SpecCalendar == Init /\ [][NextCalendar]_vars

(* Search over the stored listings. *)
SearchPrices == {1, 2, 3}
SearchRoomTypes == {"SINGLE", "SHARED"}
SearchLocations == {<<"K", "i">>, <<"H", "u">>}
QueryLocations == {<<>>, <<"k">>, <<"I">>, <<"u", "x">>}
OptionalPrices == {<<>>} \cup {<<v>> : v \in SearchPrices}
OptionalRoomTypes == {""} \cup SearchRoomTypes

NextSearch ==
  \E p \in {1} :
    \/ \E price \in SearchPrices, rt \in SearchRoomTypes, l \in SearchLocations :
         PostProperty(p, generateAccessToken(2, "LANDLORD"), price, rt, l)
    \/ \E l \in QueryLocations, lo \in OptionalPrices, hi \in OptionalPrices,
          rt \in OptionalRoomTypes :
         GetProperties(p, l, lo, hi, rt)
    \/ Reset(p)

SpecSearch == Init /\ [][NextSearch]_vars

(* The chat routes, requests running concurrently. *)
ChatTokens ==
  {generateAccessToken(1, "STUDENT"), generateAccessToken(2, "LANDLORD"),
   generateAccessToken(3, "student"), generateAccessToken(2, "landlord"),
   generateAccessToken(4, "landlord")}

Contents == {"", "hi"}

NextChat ==
  \E p \in Procs :
    \/ \E tok \in ChatTokens, recipientId \in 0..3, content \in Contents :
         PostMessage(p, tok, recipientId, content)
    \/ PostMessageUpsertFind(p)
    \/ PostMessageUpsertCreate(p)
    \/ PostMessageCreate(p)
    \/ \E tok \in ChatTokens, c \in {0} \cup ConversationIds : GetMessages(p, tok, c)
    \/ Reset(p)

SpecChat == Init /\ [][NextChat]_vars

(* The inbox of the student account 3, written to by the landlord        *)
(* accounts 2 and 4, one request at a time.                               *)
InboxSenders == {generateAccessToken(2, "landlord"), generateAccessToken(4, "landlord")}
InboxReaders == {generateAccessToken(3, "student"), generateAccessToken(2, "landlord")}

NextInbox ==
  \E p \in {1} :
    \/ \E tok \in InboxSenders : PostMessage(p, tok, 3, "hi")
    \/ PostMessageUpsertFind(p)
    \/ PostMessageUpsertCreate(p)
    \/ PostMessageCreate(p)
    \/ \E tok \in InboxReaders : GetConversations(p, tok)
    \/ \E tok \in InboxReaders, c \in ConversationIds : GetMessages(p, tok, c)
    \/ Reset(p)

SpecInbox == Init /\ [][NextInbox]_vars

(* Viewing requests, one request at a time. *)
ViewingTokens ==
  {generateAccessToken(1, "STUDENT"), generateAccessToken(1, "student"),
   generateAccessToken(3, "student"), generateAccessToken(2, "LANDLORD"),
   generateAccessToken(2, "landlord"), generateAccessToken(4, "landlord"),
   generateAccessToken(5, "ADMIN")}

Statuses == {"confirmed", "declined", "approved"}

NextViewing ==
  \E p \in {1} :
    \/ \E u \in Landlords, price \in Prices, rt \in RoomTypes, l \in Locations :
         PostProperty(p, generateAccessToken(u, "LANDLORD"), price, rt, l)
    \/ \E id \in PropertyIds :
         PutProperty(p, generateAccessToken(2, "LANDLORD"), id, [landlordId |-> 4])
    \/ \E tok \in ViewingTokens, pid \in PropertyIds : PostRequest(p, tok, pid, 1)
    \/ \E tok \in ViewingTokens : GetRequests(p, tok)
    \/ \E tok \in ViewingTokens, id \in RequestIds, status \in Statuses :
         PutRequest(p, tok, id, status)
    \/ \E tok \in ViewingTokens, id \in RequestIds : DeleteRequest(p, tok, id)
    \/ Reset(p)

SpecViewing == Init /\ [][NextViewing]_vars

(* Accounts: signup, verification, login and the Google callback,        *)
(* requests running concurrently.                                         *)
Emails == {"n@x", "s@x"}
LoginEmails == {"n@x", "s@x", "g@x", "nomail"}
Passwords == {StrongPassword, OtherPassword}
SignupRoles == {"STUDENT", "student"}
NewUserIds == (Cardinality(DOMAIN SeedUsers) + 1)..(Cardinality(DOMAIN SeedUsers) + MaxSignups)
VerifyTokens ==
  {VerificationToken(u) : u \in {1} \cup NewUserIds}
    \cup {BadToken} \cup {generateAccessToken(u, "STUDENT") : u \in NewUserIds}
Profiles == {[id |-> "g3", email |-> "g@x"], [id |-> "g9", email |-> "o@x"],
             [id |-> "g8", email |-> "n@x"]}

NextAuth ==
  \E p \in Procs :
    \/ \E email \in Emails, password \in {StrongPassword, WeakPassword},
          role \in SignupRoles :
         Signup(p, email, password, role)
    \/ SignupFind(p)
    \/ \E sent \in BOOLEAN : SignupCreate(p, sent)
    \/ \E token \in VerifyTokens : Verify(p, token)
    \/ \E email \in LoginEmails, password \in Passwords : Login(p, email, password)
    \/ \E profile \in Profiles : OAuthFind(p, profile)
    \/ OAuthCreate(p)
    \/ Reset(p)

SpecAuth == Init /\ [][NextAuth]_vars

(* Bookmarks and reviews, one request at a time. *)
StudentTokens ==
  {generateAccessToken(1, "STUDENT"), generateAccessToken(1, "student"),
   generateAccessToken(3, "student")}

Ratings == {0, 5}

\* The requests that add a row are taken while the store holds fewer than
\* MaxStore rows.
HasRoom == StoreSize(db) < MaxStore

NextEngagement ==
  \E p \in {1} :
    \/ \E u \in {r \in {2, 3} : HasRoom}, price \in Prices, rt \in RoomTypes,
          l \in Locations :
         PostProperty(p, generateAccessToken(u, "LANDLORD"), price, rt, l)
    \/ \E tok \in {t \in StudentTokens : HasRoom}, pid \in PropertyIds :
         PostSaved(p, tok, pid)
    \/ PostSavedFind(p)
    \/ PostSavedCreate(p)
    \/ \E tok \in {t \in StudentTokens : HasRoom}, pid \in PropertyIds,
          rating \in Ratings :
         PostReview(p, tok, pid, 2, rating)
    \/ PostReviewFind(p)
    \/ PostReviewCreate(p)
    \/ Reset(p)

SpecEngagement == Init /\ [][NextEngagement]_vars

(* Bookmarks and reviews of one student, two requests in flight. *)
RaceRatings == {4, 5}

NextEngagementRace ==
  \/ \E u \in {r \in {2} : HasRoom}, price \in Prices, rt \in RoomTypes,
         l \in Locations :
        PostProperty(1, generateAccessToken(u, "LANDLORD"), price, rt, l)
  \/ \E p \in Procs :
        \/ \E tok \in {t \in {generateAccessToken(3, "student")} : HasRoom},
              pid \in PropertyIds :
             PostSaved(p, tok, pid)
        \/ PostSavedFind(p)
        \/ PostSavedCreate(p)
        \/ \E tok \in {t \in {generateAccessToken(3, "student")} : HasRoom},
              pid \in PropertyIds, rating \in RaceRatings :
             PostReview(p, tok, pid, 2, rating)
        \/ PostReviewFind(p)
        \/ PostReviewCreate(p)
        \/ Reset(p)

SpecEngagementRace == Init /\ [][NextEngagementRace]_vars

(* Media uploads of the two landlord accounts, one request at a time. *)
MediaTokens ==
  LandlordTokens \cup {NoToken, generateAccessToken(3, "student")}

MediaTypes == {"image", "video", "gif"}

NextMedia ==
  \E p \in {1} :
    \/ \E tok \in LandlordTokens, price \in Prices, rt \in RoomTypes, l \in Locations :
         PostProperty(p, tok, price, rt, l)
    \/ \E tok \in MediaTokens, id \in PropertyIds, type \in MediaTypes :
         PostMedia(p, tok, id, "u", type)
    \/ Reset(p)

SpecMedia == Init /\ [][NextMedia]_vars

(* The owner column of the listings: creation and update by the landlord *)
(* accounts, removal of accounts by the admin, one request at a time.    *)
OwnerPatches == Patches \cup {[landlordId |-> 1], [landlordId |-> 9]}

AdminTokens == {generateAccessToken(5, "ADMIN"), generateAccessToken(5, "admin")}

NextOwnership ==
  \E p \in {1} :
    \/ \E u \in Landlords, price \in Prices, rt \in RoomTypes, l \in Locations :
         PostProperty(p, generateAccessToken(u, "LANDLORD"), price, rt, l)
    \/ \E u \in Landlords, id \in PropertyIds, patch \in OwnerPatches :
         PutProperty(p, generateAccessToken(u, "LANDLORD"), id, patch)
    \/ \E tok \in AdminTokens, id \in UserIds : DeleteUser(p, tok, id)
    \/ Reset(p)

SpecOwnership == Init /\ [][NextOwnership]_vars

(* First messages of the landlord accounts 2 and 4 to the student        *)
(* account 3, of a content that fits its column and of one that does not. *)
LongContent ==
  "xxxxxxxxxxxxxxxxxxxxxxxxxxxxxxxxxxxxxxxxxxxxxxxxxxxxxxxxxxxxxxxxxxxxxxxxxxxxxxxxxxxxxxxxxxxxxxxxxxxxxxxxxxxxxxxxxxxxxxxxxxxxxxxxxxxxxxxxxxxxxxxxxxxxxxxxxxxxxxxxxxxxxxxxxxxxxxxxxxxxxxxxxxxxxxxx"

ThreadContents == {"hi", LongContent}

NextThread ==
  \E p \in Procs :
    \/ \E tok \in InboxSenders, content \in ThreadContents :
         PostMessage(p, tok, 3, content)
    \/ PostMessageUpsertFind(p)
    \/ PostMessageUpsertCreate(p)
    \/ PostMessageCreate(p)
    \/ \E tok \in InboxReaders : GetConversations(p, tok)
    \/ Reset(p)

SpecThread == Init /\ [][NextThread]_vars

(* Two replacements of one calendar by its owner, running concurrently. *)
\* Replacement arrays without a repeated date: one day, another, both.
RaceArrays ==
  {<<[date |-> 1, isAvailable |-> TRUE]>>,
   <<[date |-> 2, isAvailable |-> TRUE]>>,
   <<[date |-> 1, isAvailable |-> FALSE], [date |-> 2, isAvailable |-> TRUE]>>}

NextCalendarRace ==
  \/ \E price \in Prices, rt \in RoomTypes, l \in Locations :
        PostProperty(1, generateAccessToken(2, "LANDLORD"), price, rt, l)
  \/ \E p \in Procs :
        \/ \E id \in PropertyIds, arr \in RaceArrays :
             PutAvailability(p, generateAccessToken(2, "landlord"), id, arr)
        \/ PutAvailabilityDeleteMany(p)
        \/ PutAvailabilityCreateMany(p)
        \/ Reset(p)

SpecCalendarRace == Init /\ [][NextCalendarRace]_vars

(* The whole API, one request at a time; the handlers that add rows are *)
(* taken with an accepted token while the store holds fewer than        *)
(* MaxStore rows.                                                        *)
Tokens ==
  {NoToken, BadToken,
   generateAccessToken(2, "LANDLORD"), generateAccessToken(2, "landlord"),
   generateAccessToken(3, "student"), generateAccessToken(5, "admin")}

GuardedRoutes ==
  {"postProperty", "putProperty", "deleteProperty", "postMedia", "putAvailability",
   "postRequest", "getRequests", "putRequest", "deleteRequest",
   "getConversations", "getMessages", "postMessage",
   "postSaved", "getSaved", "deleteSaved", "postReview",
   "getPendingListings", "putListingStatus", "getSpamUsers", "deleteUser",
   "getAnalytics"}

\* The tokens of the requests taken by a handler that adds a row: every
\* token while there is room, the refused ones after.
Adding == IF StoreSize(db) < MaxStore THEN Tokens ELSE {NoToken, BadToken}

Next ==
  \E p \in {1} :
    \/ \E tok \in Adding, price \in Prices, rt \in {"single"}, l \in Locations :
         PostProperty(p, tok, price, rt, l)
    \/ \E tok \in Tokens, id \in {1} : PutProperty(p, tok, id, [price |-> 2])
    \/ \E tok \in Tokens, id \in {1} : DeleteProperty(p, tok, id)
    \/ \E tok \in Adding, id \in {1} : PostMedia(p, tok, id, "u", "image")
    \/ \E id \in {1} : GetAvailability(p, id)
    \/ \E id \in {1} : GetProperty(p, id)
    \/ \E l \in {<<>>} : GetProperties(p, l, <<>>, <<>>, "")
    \/ \E tok \in Adding, id \in {1} :
         PutAvailability(p, tok, id, <<[date |-> 1, isAvailable |-> TRUE]>>)
    \/ PutAvailabilityDeleteMany(p)
    \/ PutAvailabilityCreateMany(p)
    \/ \E tok \in Adding, pid \in {1} : PostRequest(p, tok, pid, 1)
    \/ \E tok \in Tokens : GetRequests(p, tok)
    \/ \E tok \in Tokens, id \in {1} : PutRequest(p, tok, id, "confirmed")
    \/ \E tok \in Tokens, id \in {1} : DeleteRequest(p, tok, id)
    \/ \E tok \in Tokens : GetConversations(p, tok)
    \/ \E tok \in Tokens, c \in {1} : GetMessages(p, tok, c)
    \/ \E tok \in Adding : PostMessage(p, tok, 3, "hi")
    \/ PostMessageUpsertFind(p)
    \/ PostMessageUpsertCreate(p)
    \/ PostMessageCreate(p)
    \/ \E tok \in Adding, pid \in {1} : PostSaved(p, tok, pid)
    \/ PostSavedFind(p)
    \/ PostSavedCreate(p)
    \/ \E tok \in Tokens : GetSaved(p, tok)
    \/ \E tok \in Tokens, pid \in {1} : DeleteSaved(p, tok, pid)
    \/ \E tok \in Adding, pid \in {1} : PostReview(p, tok, pid, 2, 5)
    \/ PostReviewFind(p)
    \/ PostReviewCreate(p)
    \/ \E tok \in Tokens : GetPendingListings(p, tok)
    \/ \E tok \in Tokens, id \in {1} : PutListingStatus(p, tok, id, "APPROVED")
    \/ \E tok \in Tokens : GetSpamUsers(p, tok)
    \/ \E tok \in Tokens, id \in {4} : DeleteUser(p, tok, id)
    \/ \E tok \in Tokens : GetAnalytics(p, tok)
    \/ Reset(p)

Spec == Init /\ [][Next]_vars

(***************************************************************************)
(* Properties.                                                             *)
(***************************************************************************)
HasDuplicateDates(arr) ==
  \E i, j \in DOMAIN arr : i # j /\ arr[i].date = arr[j].date

\* C1: availability replacement is all-or-nothing.  When a PUT
\* /properties/:id/availability by the owner has been answered, the stored
\* calendar of the property is either the calendar E found at the start of
\* the call or exactly the rows E' of the request body.
C1_ReplacementAllOrNothing ==
  \A p \in Procs :
    (req[p].route = "putAvailability" /\ req[p].pc = "done"
       /\ req[p].id \in DOMAIN db.properties
       /\ db.properties[req[p].id].landlordId = req[p].tok.id)
    => (CalendarOf(db, req[p].id) = req[p].before
        \/ CalendarOf(db, req[p].id) = RowsOf(req[p].id, req[p].arr))

\* C2: a read of a property's availability that runs while a setAvailability
\* call replaces calendar E by E' returns either E or E', also when the
\* insert of E' is going to succeed.
C2_ReadSeesWholeCalendar ==
  [][\A p, q \in Procs :
       (/\ req[p].pc = "idle" /\ req'[p].pc = "done"
        /\ req'[p].route \in {"getAvailability", "getProperty"}
        /\ req'[p].status = 200
        /\ req[q].route = "putAvailability"
        /\ req[q].pc \in {"deleteMany", "createMany"}
        /\ req[q].id = req'[p].id
        /\ ~HasDuplicateDates(req[q].arr))
       => (req'[p].result = req[q].before
           \/ req'[p].result = RowsOf(req[q].id, req[q].arr))]_vars

\* C7: PUT /properties/:id and DELETE /properties/:id by an authenticated
\* landlord who is not the stored owner of the property answer 403 and
\* leave the store, the property and its dependent rows, unchanged.
C7_NonOwnerForbidden ==
  [][\A p \in Procs :
       (/\ req[p].pc = "idle" /\ req'[p].pc # "idle"
        /\ req'[p].route \in {"putProperty", "deleteProperty"}
        /\ req'[p].tok.kind = "valid"
        /\ req'[p].tok.role \in {"LANDLORD", "landlord"}
        /\ req'[p].id \in DOMAIN db.properties
        /\ db.properties[req'[p].id].landlordId # req'[p].tok.id)
       => (req'[p].pc = "done" /\ req'[p].status = 403 /\ db' = db)]_vars

\* A non-owning landlord that passed the role gate of PUT /properties/:id
\* was stopped by the ownership check.
C7_Witness ==
  \E p \in Procs :
    /\ req[p].pc = "done" /\ req[p].route = "putProperty"
    /\ req[p].tok.role = "LANDLORD"
    /\ req[p].id \in DOMAIN db.properties
    /\ db.properties[req[p].id].landlordId # req[p].tok.id
    /\ req[p].status = 403

\* The properties that satisfy every supplied filter.
Satisfying(d, f) ==
  {id \in DOMAIN d.properties :
     /\ f.location # <<>> => ContainsInsensitive(d.properties[id].location, f.location)
     /\ f.minPrice # <<>> => d.properties[id].price >= f.minPrice[1]
     /\ f.maxPrice # <<>> => d.properties[id].price <= f.maxPrice[1]
     /\ f.roomType # "" => d.properties[id].roomType = f.roomType}

\* C8: GET /properties returns exactly the stored properties that satisfy
\* every supplied filter, and all of them when no filter is supplied.
C8_SearchExact ==
  \A p \in Procs :
    (req[p].pc = "done" /\ req[p].route = "getProperties")
    => req[p].result = Satisfying(db, req[p].loc)

\* C3: at most one Conversation is stored for each (student, landlord)
\* pair, under every interleaving of the sends.
C3_OneConversationPerPair ==
  \A s, l \in UserIds : Cardinality(ConversationsOf(db, s, l)) <= 1

\* Two sends for the same pair raced past the lookup of the upsert: one
\* created the conversation, the insert of the other was refused.
C3_Witness ==
  /\ req[1].pc = "done" /\ req[2].pc = "done"
  /\ req[1].route = "postMessage" /\ req[2].route = "postMessage"
  /\ req[1].status = 201 /\ req[2].status = 500
  /\ ConversationsOf(db, 3, 2) # {}

\* The token POST /auth/login issues for a stored account.
IsLoginToken(d, tok) ==
  tok.kind = "valid" /\ tok.id \in DOMAIN d.users /\ tok.role = d.users[tok.id].role

\* C4: a send between a student account and a landlord account created by
\* signup (roles STUDENT and LANDLORD), in either direction, with a
\* recipient and a content, is answered 201, and then exactly one
\* conversation is stored for the pair, holding the message.
C4_SendCreatesConversation ==
  \A p \in Procs :
    (/\ req[p].pc = "done" /\ req[p].route = "postMessage"
     /\ IsLoginToken(db, req[p].tok)
     /\ req[p].id \in DOMAIN db.users
     /\ req[p].loc.content # ""
     /\ {req[p].tok.role, db.users[req[p].id].role} = {"STUDENT", "LANDLORD"})
    => LET s == IF req[p].tok.role = "STUDENT" THEN req[p].tok.id ELSE req[p].id
           l == IF req[p].tok.role = "STUDENT" THEN req[p].id ELSE req[p].tok.id
       IN /\ req[p].status = 201
          /\ Cardinality(ConversationsOf(db, s, l)) = 1
          /\ \E i \in DOMAIN db.messages :
               /\ db.messages[i].conversationId \in ConversationsOf(db, s, l)
               /\ db.messages[i].senderId = req[p].tok.id

\* One bookmark request is answered in this step.
SavedAnswered(p) ==
  /\ req[p].route = "postSaved" /\ req[p].pc \in {"findSaved", "createSaved"}
  /\ req'[p].pc = "done"

ReviewAnswered(p) ==
  /\ req[p].pc # "done" /\ req'[p].pc = "done"
  /\ req'[p].route = "postReview"
  /\ Guard({"student"}, req'[p].tok) = 0
  /\ req'[p].loc.rating \in 1..5
  /\ req'[p].id \in DOMAIN db.properties

MessagesAnswered(p) ==
  /\ req[p].pc = "idle" /\ req'[p].pc = "done"
  /\ req'[p].route = "getMessages"
  /\ req'[p].tok.kind = "valid"

IsParticipant(d, c, u) ==
  /\ c \in DOMAIN d.conversations
  /\ u \in {d.conversations[c].studentId, d.conversations[c].landlordId}

\* C10 as stated: the messages of conversation c are returned only to c's
\* student or landlord; every other identity, and a request for a
\* conversation that does not exist, is answered 403 without content.
C10_DeniedWith403 ==
  [][\A p \in Procs :
       MessagesAnswered(p)
       => IF IsParticipant(db, req'[p].id, req'[p].tok.id)
            THEN req'[p].status = 200 /\ req'[p].result = MessagesOf(db, req'[p].id)
            ELSE req'[p].status = 403 /\ req'[p].result = <<>>]_vars

\* C10 as amended: as above, but a request whose conversationId is 0 or not
\* a number is answered 400 instead of 403, also without content.
C10_DeniedWithoutContent ==
  [][\A p \in Procs :
       MessagesAnswered(p)
       => IF IsParticipant(db, req'[p].id, req'[p].tok.id)
            THEN req'[p].status = 200 /\ req'[p].result = MessagesOf(db, req'[p].id)
            ELSE /\ req'[p].status = (IF req'[p].id = 0 THEN 400 ELSE 403)
                 /\ req'[p].result = <<>>]_vars

\* An identity that is neither the student nor the landlord of a stored
\* conversation with messages asked for them and was answered 403.
C10_Witness ==
  \E p \in Procs :
    /\ req[p].pc = "done" /\ req[p].route = "getMessages" /\ req[p].status = 403
    /\ req[p].tok.kind = "valid"
    /\ req[p].id \in DOMAIN db.conversations
    /\ MessagesOf(db, req[p].id) # <<>>
    /\ ~IsParticipant(db, req[p].id, req[p].tok.id)

\* C9: on every route guarded by authenticateToken a request without a
\* bearer token is answered 401 in its first step, before the role check,
\* the ownership check and every data-store operation, and the store is
\* unchanged.
C9_NoTokenUnauthorized ==
  [][\A p \in Procs :
       (/\ req[p].pc = "idle" /\ req'[p].pc # "idle"
        /\ req'[p].route \in GuardedRoutes
        /\ req'[p].tok.kind = "none")
       => (req'[p].pc = "done" /\ req'[p].status = 401 /\ db' = db)]_vars

\* A request without a token for the availability of a stored property,
\* which a landlord's token could have replaced, was answered 401.
C9_Witness ==
  \E p \in Procs :
    /\ req[p].pc = "done" /\ req[p].route = "putAvailability"
    /\ req[p].tok.kind = "none" /\ req[p].status = 401
    /\ req[p].id \in DOMAIN db.properties

\* The id of the latest message of conversation c, 0 when it has none.
LastActivity(d, c) ==
  LET ms == MessagesOf(d, c) IN IF ms = <<>> THEN 0 ELSE ms[Len(ms)].id

\* C11: GET /chat/conversations lists exactly the requester's conversations,
\* the one with the most recent message first, each with its single latest
\* message as preview; GET /chat/messages returns a conversation's messages
\* oldest first.
C11_OrderedByActivity ==
  [][\A p \in Procs :
       (req[p].pc = "idle" /\ req'[p].pc = "done" /\ req'[p].status = 200)
       => /\ req'[p].route = "getConversations"
             => LET r == req'[p].result
                    u == req'[p].tok.id
                IN /\ {r[i].id : i \in DOMAIN r}
                        = {c \in DOMAIN db.conversations :
                             u \in {db.conversations[c].studentId,
                                    db.conversations[c].landlordId}}
                   /\ \A i, j \in DOMAIN r :
                        i < j => LastActivity(db, r[i].id) > LastActivity(db, r[j].id)
                   /\ \A i \in DOMAIN r :
                        /\ Len(r[i].messages) = 1
                        /\ r[i].messages[1].id = LastActivity(db, r[i].id)
          /\ req'[p].route = "getMessages"
             => LET r == req'[p].result
                IN /\ r = MessagesOf(db, req'[p].id)
                   /\ \A i, j \in DOMAIN r : i < j => r[i].id < r[j].id]_vars

IsStudentRole(r) == r \in {"STUDENT", "student"}
IsLandlordRole(r) == r \in {"LANDLORD", "landlord"}

\* The token names the role stored for its account, up to letter case.
TokenOfAccount(d, tok) ==
  /\ tok.kind = "valid" /\ tok.id \in DOMAIN d.users
  /\ \/ IsStudentRole(tok.role) /\ IsStudentRole(d.users[tok.id].role)
     \/ IsLandlordRole(tok.role) /\ IsLandlordRole(d.users[tok.id].role)
     \/ tok.role = d.users[tok.id].role

\* By the stored roles, one of a and b is a student and the other a landlord.
StudentAndLandlord(d, a, b) ==
  /\ a \in DOMAIN d.users /\ b \in DOMAIN d.users /\ a # b
  /\ \/ IsStudentRole(d.users[a].role) /\ IsLandlordRole(d.users[b].role)
     \/ IsLandlordRole(d.users[a].role) /\ IsStudentRole(d.users[b].role)

\* C12: a send by an account's token whose sender and recipient are not one
\* student and one landlord by their stored roles (a missing recipient and a
\* send to oneself included) is answered 400 and stores nothing; a stored
\* message lies in a conversation between the sender and the recipient whose
\* student is stored as a student and whose landlord is stored as a landlord.
C12_StudentLandlordOnly ==
  [][\A p \in Procs :
       /\ (/\ req[p].pc = "idle" /\ req'[p].pc # "idle"
           /\ req'[p].route = "postMessage"
           /\ TokenOfAccount(db, req'[p].tok)
           /\ ~StudentAndLandlord(db, req'[p].tok.id, req'[p].id))
          => (req'[p].pc = "done" /\ req'[p].status = 400 /\ db' = db)
       /\ (/\ req[p].pc = "createMessage" /\ req'[p].pc = "done"
           /\ TokenOfAccount(db, req[p].tok))
          => LET m == db'.messages[Len(db'.messages)]
                 c == db'.conversations[m.conversationId]
             IN /\ Len(db'.messages) = Len(db.messages) + 1
                /\ {c.studentId, c.landlordId} = {req[p].tok.id, req[p].id}
                /\ IsStudentRole(db.users[c.studentId].role)
                /\ IsLandlordRole(db.users[c.landlordId].role)]_vars

\* A message sent with the token of its account was stored.
C12_Witness ==
  \E p \in Procs :
    /\ req[p].pc = "done" /\ req[p].route = "postMessage" /\ req[p].status = 201
    /\ TokenOfAccount(db, req[p].tok)
    /\ Len(db.messages) > 0
    /\ db.messages[Len(db.messages)].senderId = req[p].tok.id

C14_ListingRoleScoped ==
  [][\A p \in Procs :
       (/\ req[p].pc = "idle" /\ req'[p].pc = "done"
        /\ req'[p].route = "getRequests"
        /\ TokenOfAccount(db, req'[p].tok))
       => LET u == req'[p].tok.id
              role == db.users[u].role
          IN IF IsLandlordRole(role)
               THEN /\ req'[p].status = 200
                    /\ req'[p].result =
                         {v \in DOMAIN db.viewingRequests :
                            db.properties[db.viewingRequests[v].propertyId].landlordId = u}
             ELSE IF IsStudentRole(role)
               THEN /\ req'[p].status = 200
                    /\ req'[p].result =
                         {v \in DOMAIN db.viewingRequests :
                            db.viewingRequests[v].studentId = u}
             ELSE req'[p].status = 403 /\ req'[p].result = {}]_vars

\* enum ViewingStatus, as the handlers spell its first value
ViewingStatus == {"pending", "approved", "rejected"}

\* C15: every stored request's status is pending, approved or rejected; a
\* status changes only in a PUT /viewing-requests/:id by the landlord who
\* owns the request's property, from pending to approved or rejected; a PUT
\* for a stored request by any other identity answers 403 and changes
\* nothing.
C15_StatusTransitions ==
  /\ [](\A v \in DOMAIN db.viewingRequests :
          db.viewingRequests[v].status \in ViewingStatus)
  /\ [][/\ \A v \in DOMAIN db.viewingRequests \cap DOMAIN db'.viewingRequests :
            db'.viewingRequests[v].status # db.viewingRequests[v].status
            => /\ \E p \in Procs :
                    /\ req[p].pc = "idle" /\ req'[p].pc = "done"
                    /\ req'[p].route = "putRequest" /\ req'[p].id = v
                    /\ req'[p].tok.id
                         = db.properties[db.viewingRequests[v].propertyId].landlordId
               /\ db.viewingRequests[v].status = "pending"
               /\ db'.viewingRequests[v].status \in {"approved", "rejected"}
       /\ \A p \in Procs :
            (/\ req[p].pc = "idle" /\ req'[p].pc = "done"
             /\ req'[p].route = "putRequest"
             /\ req'[p].tok.kind = "valid"
             /\ req'[p].id \in DOMAIN db.viewingRequests
             /\ req'[p].tok.id
                  # db.properties[db.viewingRequests[req'[p].id].propertyId].landlordId)
            => (req'[p].status \in {400, 403} /\ db' = db)]_vars

\* C16: DELETE /viewing-requests/:id by an authenticated identity answers
\* 404 for an id that is not stored; removes the request, and nothing else,
\* when the requester is its student or the landlord who owns its property;
\* and answers 403 with the store unchanged for everyone else.
C16_CancelByParties ==
  [][\A p \in Procs :
       (/\ req[p].pc = "idle" /\ req'[p].pc = "done"
        /\ req'[p].route = "deleteRequest"
        /\ req'[p].tok.kind = "valid")
       => LET id == req'[p].id
              u == req'[p].tok.id
          IN IF id \notin DOMAIN db.viewingRequests
               THEN req'[p].status = 404 /\ db' = db
             ELSE IF \/ u = db.viewingRequests[id].studentId
                     \/ u = db.properties[db.viewingRequests[id].propertyId].landlordId
               THEN /\ req'[p].status = 200
                    /\ db' = [db EXCEPT !.viewingRequests =
                                [v \in DOMAIN db.viewingRequests \ {id}
                                   |-> db.viewingRequests[v]]]
             ELSE req'[p].status = 403 /\ db' = db]_vars

\* The landlord who owns the property of a request cancelled it, while a
\* request of another property is still stored.
C16_Witness ==
  \E p \in Procs :
    /\ req[p].pc = "done" /\ req[p].route = "deleteRequest" /\ req[p].status = 200
    /\ req[p].id \notin DOMAIN db.viewingRequests
    /\ IsLandlordRole(db.users[req[p].tok.id].role)
    /\ DOMAIN db.viewingRequests # {}

\* An account as POST /auth/signup creates it.
SignedUp(d, u) == u \in DOMAIN d.users /\ d.users[u].googleId = ""

\* C17: an account created by signup starts unverified and becomes verified
\* only in a successful GET /auth/verify for it; while it is unverified
\* every login with its email, whatever the password, is answered 403 and
\* issues no token; once verified, a login with the correct password is
\* answered 200 with the tokens of the account.
C17_LoginNeedsVerification ==
  [][/\ \A u \in DOMAIN db'.users :
          SignedUp(db', u)
          => /\ u \notin DOMAIN db.users => ~db'.users[u].isVerified
             /\ (u \in DOMAIN db.users /\ db'.users[u].isVerified # db.users[u].isVerified)
                => /\ db'.users[u].isVerified
                   /\ \E p \in Procs :
                        /\ req[p].pc = "idle" /\ req'[p].pc = "done"
                        /\ req'[p].route = "verify" /\ req'[p].status = 200
                        /\ req'[p].id = u
     /\ \A p \in Procs :
          (/\ req[p].pc = "idle" /\ req'[p].pc = "done" /\ req'[p].route = "login"
           /\ req'[p].id # 0 /\ SignedUp(db, req'[p].id))
          => LET u == req'[p].id
             IN /\ db.users[u].email = req'[p].loc.email
                /\ ~db.users[u].isVerified
                     => req'[p].status = 403 /\ req'[p].result = {}
                /\ (db.users[u].isVerified
                      /\ compare(req'[p].loc.password, db.users[u].passwordHash))
                     => /\ req'[p].status = 200
                        /\ req'[p].result = IssuedTokens(db, u)
                /\ req'[p].status # 200 => req'[p].result = {}]_vars

\* A login with the correct password for a new, unverified account was
\* answered 403.
C17_Witness ==
  \E p \in Procs :
    /\ req[p].pc = "done" /\ req[p].route = "login" /\ req[p].status = 403
    /\ req[p].id \in NewUserIds /\ SignedUp(db, req[p].id)
    /\ ~db.users[req[p].id].isVerified
    /\ compare(req[p].loc.password, db.users[req[p].id].passwordHash)

\* A login for a new account succeeded after its verification.
C17_WitnessVerified ==
  \E p \in Procs :
    /\ req[p].pc = "done" /\ req[p].route = "login" /\ req[p].status = 200
    /\ req[p].id \in NewUserIds /\ SignedUp(db, req[p].id)

\* C18: DELETE /properties/:id by the stored owner, through the role gate,
\* succeeds whatever rows depend on the property, and afterwards neither the
\* property nor an Availability, PropertyMedia or Review row of it is stored.
C18_DeleteCascades ==
  [][\A p \in Procs :
       (/\ req[p].pc = "idle" /\ req'[p].pc = "done"
        /\ req'[p].route = "deleteProperty"
        /\ Guard({"landlord"}, req'[p].tok) = 0
        /\ req'[p].id \in DOMAIN db.properties
        /\ db.properties[req'[p].id].landlordId = req'[p].tok.id)
       => /\ req'[p].status = 200
          /\ req'[p].id \notin DOMAIN db'.properties
          /\ CalendarOf(db', req'[p].id) = {}
          /\ \A i \in DOMAIN db'.media : db'.media[i].propertyId # req'[p].id
          /\ \A i \in DOMAIN db'.reviews : db'.reviews[i].propertyId # req'[p].id]_vars

\* C19: no two stored users share an email.
UniqueEmails ==
  \A u, v \in DOMAIN db.users : db.users[u].email = db.users[v].email => u = v

UniqueGoogleIds ==
  \A u, v \in DOMAIN db.users :
    (db.users[u].googleId # "" /\ db.users[u].googleId = db.users[v].googleId)
      => u = v

\* C20: under any interleaving of OAuth logins at most one user has a given
\* googleId; the callback's lookup changes no row and goes on to the insert
\* only when no user has the profile's googleId; the insert adds one account
\* when none has it, nothing otherwise, and the account it adds is verified.
C20_OAuthOnePerGoogleId ==
  /\ []UniqueGoogleIds
  /\ [][\A p \in Procs :
          /\ (req[p].pc = "idle" /\ req'[p].route = "oauth")
             => /\ db' = db
                /\ (req'[p].pc = "oauthCreate")
                     <=> (UsersByGoogleId(db, req'[p].loc.id) = {})
          /\ (req[p].pc = "oauthCreate" /\ req'[p] # req[p])
             => IF UsersByGoogleId(db, req[p].loc.id) # {}
                  THEN db' = db
                  ELSE \/ db' = db /\ req'[p].status = 500
                       \/ \E u \in DOMAIN db'.users \ DOMAIN db.users :
                            /\ DOMAIN db'.users = DOMAIN db.users \cup {u}
                            /\ db'.users[u].googleId = req[p].loc.id
                            /\ db'.users[u].isVerified]_vars

\* C21: two POST /saved-properties/:propertyId requests of one student for
\* one stored property that have both been answered left exactly one row of
\* the pair, and each was answered 201 or 409, at most one of them 201.
C21_ConcurrentSaves ==
  \A p, q \in Procs :
    (/\ p # q
     /\ req[p].pc = "done" /\ req[q].pc = "done"
     /\ req[p].route = "postSaved" /\ req[q].route = "postSaved"
     /\ req[p].tok.id = req[q].tok.id /\ req[p].id = req[q].id
     /\ req[p].status \notin {401, 403, 404}
     /\ req[q].status \notin {401, 403, 404})
    => /\ Cardinality(SavedRows(db, req[p].tok.id, req[p].id)) = 1
       /\ req[p].status \in {201, 409} /\ req[q].status \in {201, 409}
       /\ ~(req[p].status = 201 /\ req[q].status = 201)

\* C22: no student has two stored reviews of one property.
C22_OneReviewPerPair ==
  \A i, j \in DOMAIN db.reviews :
    (/\ db.reviews[i].studentId = db.reviews[j].studentId
     /\ db.reviews[i].propertyId = db.reviews[j].propertyId)
    => i = j

\* C23: every stored message belongs to a stored conversation, its senderId
\* is one of the conversation's two participants and its receiverId is the
\* other one.
C23_SenderReceiverParticipants ==
  \A i \in DOMAIN db.messages :
    LET m == db.messages[i]
    IN /\ m.conversationId \in DOMAIN db.conversations
       /\ LET c == db.conversations[m.conversationId]
          IN \/ m.senderId = c.studentId /\ m.receiverId = c.landlordId
             \/ m.senderId = c.landlordId /\ m.receiverId = c.studentId

\* C24: a token that passes the role gate of POST /properties is not
\* answered 403 by PUT /properties/:id, DELETE /properties/:id,
\* POST /properties/:id/media or PUT /properties/:id/availability on a stored
\* property that its identity owns.
C24_LandlordGateUniform ==
  [][\A p \in Procs :
       (/\ req[p].pc = "idle" /\ req'[p].pc # "idle"
        /\ req'[p].route \in {"putProperty", "deleteProperty", "postMedia",
                              "putAvailability"}
        /\ Guard({"LANDLORD"}, req'[p].tok) = 0
        /\ req'[p].id \in DOMAIN db.properties
        /\ db.properties[req'[p].id].landlordId = req'[p].tok.id)
       => req'[p].status # 403]_vars

\* C25: a POST /properties/:id/media that passes the role gate and the
\* validators adds a row only when the token's identity is the stored owner
\* of the property; for a property of another landlord and for a property
\* that is not stored it is answered 403 and the store is unchanged.
C25_MediaByOwnerOnly ==
  [][\A p \in Procs :
       (/\ req[p].pc = "idle" /\ req'[p].pc = "done"
        /\ req'[p].route = "postMedia"
        /\ Guard({"landlord"}, req'[p].tok) = 0
        /\ req'[p].status # 400)
       => IF /\ req'[p].id \in DOMAIN db.properties
             /\ db.properties[req'[p].id].landlordId = req'[p].tok.id
            THEN TRUE
            ELSE req'[p].status = 403 /\ db' = db]_vars

\* C26: the landlordId of every stored property is the id of a stored user
\* whose role is landlord.
C26_OwnerIsLandlord ==
  \A i \in DOMAIN db.properties :
    /\ db.properties[i].landlordId \in DOMAIN db.users
    /\ IsLandlordRole(db.users[db.properties[i].landlordId].role)

\* The role-gated routes, by the role their gate names.
LandlordRoutes ==
  {"postProperty", "putProperty", "deleteProperty", "postMedia", "putAvailability",
   "putRequest"}
StudentRoutes == {"postRequest", "postReview", "postSaved", "getSaved", "deleteSaved"}
AdminRoutes ==
  {"getPendingListings", "putListingStatus", "getSpamUsers", "deleteUser",
   "getAnalytics"}

\* The roles of the route's gate, in either letter case.
AllowedRoles(route) ==
  IF route \in LandlordRoutes THEN {"LANDLORD", "landlord"}
  ELSE IF route \in StudentRoutes THEN {"STUDENT", "student"}
  ELSE IF route \in AdminRoutes THEN {"ADMIN", "admin"}
  ELSE RoleStrings

\* C27: a request to a role-gated route whose verified token carries a role
\* outside the route's allowed set is answered 403 in its first step with the
\* store unchanged, and every step of a request to a role-gated route that
\* changes the store belongs to a request whose token carries an allowed role.
C27_RoleGate ==
  [][\A p \in Procs :
       /\ (/\ req[p].pc = "idle" /\ req'[p].pc # "idle"
           /\ req'[p].route \in LandlordRoutes \cup StudentRoutes \cup AdminRoutes
           /\ authenticateToken(req'[p].tok) = 0
           /\ req'[p].tok.role \notin AllowedRoles(req'[p].route))
          => (req'[p].pc = "done" /\ req'[p].status = 403 /\ db' = db)
       /\ (/\ req'[p] # req[p] /\ req'[p].pc # "idle"
           /\ req'[p].route \in LandlordRoutes \cup StudentRoutes \cup AdminRoutes
           /\ db' # db)
          => (/\ authenticateToken(req'[p].tok) = 0
              /\ req'[p].tok.role \in AllowedRoles(req'[p].route))]_vars

\* A student's token asked to delete a stored property and was answered 403.
C27_Witness ==
  \E p \in Procs :
    /\ req[p].pc = "done" /\ req[p].route = "deleteProperty"
    /\ req[p].tok.kind = "valid" /\ req[p].tok.role = "student"
    /\ req[p].id \in DOMAIN db.properties
    /\ req[p].status = 403

\* C28: every stored conversation holds a message, or a request that has
\* found or created it has its message insert still to run.
C28_NoEmptyConversation ==
  \A c \in DOMAIN db.conversations :
    \/ MessagesOf(db, c) # <<>>
    \/ \E p \in Procs :
         /\ req[p].route = "postMessage" /\ req[p].pc = "createMessage"
         /\ req[p].loc.conversationId = c

\* C29: when two PUT /properties/:id/availability requests of the owner for
\* one property have both been answered, both were answered 200 and the
\* stored calendar of the property is exactly the entries of one of them.
C29_ConcurrentReplacements ==
  \A p, q \in Procs :
    (/\ p # q
     /\ req[p].pc = "done" /\ req[q].pc = "done"
     /\ req[p].route = "putAvailability" /\ req[q].route = "putAvailability"
     /\ req[p].id = req[q].id
     /\ req[p].status \notin {401, 403} /\ req[q].status \notin {401, 403})
    => /\ req[p].status = 200 /\ req[q].status = 200
       /\ CalendarOf(db, req[p].id)
            \in {RowsOf(req[p].id, req[p].arr), RowsOf(req[q].id, req[q].arr)}

\* The client-error statuses.
ClientErrors == {400, 401, 403, 404, 409}

\* The positions a request can hold after a write of its own.
AfterWrite == {"createMany", "createMessage"}

\* C30: a step that answers a request with 400, 401, 403, 404 or 409 leaves
\* the store unchanged, and a request that has written to the store in an
\* earlier step is not answered with one of these statuses.
C30_ClientErrorFrame ==
  [][\A p \in Procs :
       (req'[p] # req[p])
       => /\ (req'[p].pc = "done" /\ req'[p].status \in ClientErrors) => db' = db
          /\ (db' # db \/ req[p].pc \in AfterWrite)
               => /\ req'[p].pc \in AfterWrite \cup {"done"}
                  /\ req'[p].pc = "done" => req'[p].status \notin ClientErrors]_vars

\* The deletion of a stored viewing request by an account that is no party
\* to it was answered 403, with the request and a bookmark still stored.
C30_Witness ==
  \E p \in Procs :
    /\ req[p].pc = "done" /\ req[p].route = "deleteRequest" /\ req[p].status = 403
    /\ req[p].id \in DOMAIN db.viewingRequests
    /\ Len(db.savedProperties) > 0

====
